---- MODULE Spec2Model ----
(***************************************************************************)
(* Tenant subscription / entitlement resolution of the Saas_CRM_HRM Django *)
(* application: tenants, users, subscriptions, Razorpay payment            *)
(* transactions, the request middleware chain and the RBAC permission      *)
(* checks.  Every view is one action; the database tables are the state.   *)
(*                                                                         *)
(* Dates are day numbers.  A DateTimeField is kept at half-day resolution: *)
(* midnight of day d is 2*d and any instant during day d is 2*d+1, so that *)
(* a comparison of timezone.now() with a stored datetime is exact.         *)
(* Columns that no modelled code reads (e-mail, audit timestamps,          *)
(* Subscription.amount, Tenant.razorpay_order_id, the razorpay_payment_id  *)
(* and razorpay_signature of a transaction) are left out of the rows.      *)
(***************************************************************************)
EXTENDS Integers, Sequences, FiniteSets, TLC

VARIABLES today, ticks, tenants, users, subs, txs, invoices,
          company_subscriptions, roles, role_permissions, perm_active, inflight,
          resp

vars == <<today, ticks, tenants, users, subs, txs, invoices,
          company_subscriptions, roles, role_permissions, perm_active, inflight,
          resp>>

db == <<tenants, users, subs, txs, invoices>>
rbac == <<roles, role_permissions, perm_active>>
clock == <<today, ticks>>

(* ------------------------------ bounds -------------------------------- *)
MaxTenants == 1
MaxUsers == 2
MaxSubs == 1
(* requests served at the same time, and subscription rows they may write *)
MaxRequests == 2
MaxConcurrentSubs == 2
MaxTxs == 1
MaxTicks == 2
MaxCompanySubs == 1

(* --------------------------- program constants ------------------------ *)
MonthlyDays == 30
YearlyDays == 365

NoDate == -1
DayOf(dt) == dt \div 2
DuringDay(d) == 2 * d + 1
Midnight(d) == 2 * d
Now == DuringDay(today)


(* ------------------------------ plans --------------------------------- *)
(* the plans table: one active plan; PlanInputs also holds an id that    *)
(* names no row                                                           *)
PlanIds == {1}
PlanInputs == {1, 2}
Plan == [p \in PlanIds |->
           [price_monthly |-> 10, price_yearly |-> 100, max_users |-> 1, status |-> TRUE]]

(* the features a plan is linked to through PlanFeature rows *)
Features == {"hrm", "crm"}
PlanFeatures == [p \in PlanIds |-> {"hrm"}]

(* ------------------------------ roles --------------------------------- *)
RoleIds == {1, 2, 3}
RoleName == [r \in RoleIds |->
               CASE r = 1 -> "COMPANY_ADMIN" [] r = 2 -> "EMPLOYEE" [] OTHER -> "MANAGER"]
(* every role that init_roles seeds is a system role *)
is_system == [r \in RoleIds |-> TRUE]
Codenames == {"create_user", "edit_user", "delete_user"}

(* ------------------------- Razorpay signature ------------------------- *)
KeySecret == 5
SigMod == 5
PaymentIds == {1, 2}
Signatures == 0 .. (SigMod - 1)
HmacSha256(key, order_id, payment_id) == (key + 3 * order_id + 2 * payment_id * payment_id) % SigMod

(* ------------------------------ helpers ------------------------------- *)
TenantIds == 1 .. Len(tenants)
(* the ids of the rows of custom_users; a deleted row keeps its id *)
UserIds == {i \in 1 .. Len(users) : ~users[i].deleted}
SubIds == 1 .. Len(subs)
TxIds == 1 .. Len(txs)

Names == {"register", "acme"}
SegmentOf == [p \in {"/register/", "/auth/register/", "/hrm/overview/", "/saas-admin/dashboard/",
                     "/dashboard/"} |->
                CASE p = "/register/" -> "register"
                  [] p = "/auth/register/" -> "auth"
                  [] p = "/hrm/overview/" -> "hrm"
                  [] p = "/saas-admin/dashboard/" -> "saas-admin"
                  [] OTHER -> "dashboard"]

(* Tenant.save: slug = slugify(name), made unique by a random suffix *)
NewSlug(name) == <<name, Cardinality({t \in TenantIds : tenants[t].slug[1] = name})>>

(* ------------------------------- RBAC --------------------------------- *)
(* Role.has_permission without the permission__is_active filter *)
Role_has_permission_any(role, codename) ==
    <<role, codename>> \in role_permissions

(* Role.has_permission: a RolePermission row of the role whose Permission *)
(* has the codename and is active                                         *)
Role_has_permission(role, codename) ==
    /\ <<role, codename>> \in role_permissions
    /\ perm_active[codename]

(* CustomUser.has_permission *)
has_permission(u, codename) ==
    IF users[u].is_superuser \/ users[u].is_staff THEN TRUE
    ELSE IF users[u].role = 0 THEN FALSE
    ELSE Role_has_permission(users[u].role, codename)

(* permission_required with the permission test left out: every          *)
(* authenticated user reaches the view                                    *)
permission_required_unchecked(u, codename, raise_exception) ==
    IF u = 0
    THEN (IF raise_exception THEN "401" ELSE "redirect:login")
    ELSE "view"

(* decorators.permission_required(codename, raise_exception): the status  *)
(* the wrapper answers with; "view" when it calls the wrapped view        *)
permission_required(u, codename, raise_exception) ==
    IF u = 0
    THEN (IF raise_exception THEN "401" ELSE "redirect:login")
    ELSE IF users[u].is_superuser \/ users[u].is_staff THEN "view"
    ELSE IF has_permission(u, codename) THEN "view"
    ELSE IF raise_exception THEN "403"
    ELSE "redirect:tenant:dashboard"

(* CompanySubscription.is_active *)
CompanySubscription_is_active(cs) ==
    cs.status = "active" /\ (cs.end = NoDate \/ Now <= cs.end)

(* decorators.require_subscription_feature(feature_name): "view" when the *)
(* wrapped view is called.  Without a tenant slug in the session or the   *)
(* URL the wrapper redirects to the login; with one, the first statement  *)
(* of the try block reads request.user.owned_tenants, an attribute that   *)
(* CustomUser and its relations do not define (Tenant has no foreign key  *)
(* to a user), so AttributeError is raised and the except Exception       *)
(* branch answers with the same redirect.                                 *)
require_subscription_feature(u, has_tenant_slug, feature_name) ==
    IF ~has_tenant_slug THEN "redirect:company:login"
    ELSE "redirect:company:login"

(* ---------------------------- middleware ------------------------------ *)
(* Tenant.is_subscription_active without the test of the end date *)
is_subscription_active_status_only(t) ==
    tenants[t].status = "active"

(* Tenant.is_subscription_active *)
is_subscription_active(t) ==
    IF tenants[t].status # "active" THEN FALSE
    ELSE IF tenants[t].end # NoDate /\ Now > tenants[t].end THEN FALSE
    ELSE TRUE

TenantBySlug(seg) == {t \in TenantIds : tenants[t].slug = <<seg, 0>>}

(* TenantMiddleware.__call__: "redirect", or the tenant put in            *)
(* request.tenant (0 when the first path segment names no tenant)         *)
TenantMiddleware(path) ==
    LET found == TenantBySlug(SegmentOf[path])
    IN IF found = {} THEN [redirect |-> FALSE, tenant |-> 0]
       ELSE LET t == CHOOSE x \in found : TRUE
            IN IF ~is_subscription_active(t)
               THEN [redirect |-> TRUE, tenant |-> 0]
               ELSE [redirect |-> FALSE, tenant |-> t]

(* Subscription.objects.filter(tenant, status='active')                   *)
(*   .order_by('-created_at').first(); rows are kept in creation order    *)
ActiveSubs(t) == {i \in SubIds : subs[i].tenant = t /\ subs[i].status = "active"}
LatestActiveSub(t) ==
    IF ActiveSubs(t) = {} THEN 0
    ELSE CHOOSE i \in ActiveSubs(t) : \A j \in ActiveSubs(t) : j <= i

(* the expiry test of DashboardProtectionMiddleware, off by a period: a   *)
(* subscription counts as expired only a month after its end_date         *)
SubscriptionExpired_late(s) ==
    subs[s].end # NoDate /\ today > subs[s].end + MonthlyDays

(* "subscription.end_date and timezone.now().date() > subscription.end_date" *)
SubscriptionExpired(s) ==
    subs[s].end # NoDate /\ today > subs[s].end

(* the test in front of /saas-admin/ with its negation lost *)
SaasAdminAllowed_inverted(u) ==
    ~(users[u].is_superuser \/ users[u].is_staff)

(* "request.user.is_superuser or request.user.is_staff" in front of /saas-admin/ *)
SaasAdminAllowed(u) ==
    users[u].is_superuser \/ users[u].is_staff

AdminRoleNames == {"COMPANY_ADMIN", "ADMIN", "OWNER"}
RoleNameOf(u) == IF users[u].role = 0 THEN "" ELSE RoleName[users[u].role]

(* DashboardProtectionMiddleware.__call__: the outcome ("pass" when the   *)
(* request is handed to get_response) and the subscription it marks       *)
(* expired (0: none)                                                      *)
DashboardProtectionMiddleware(u, path) ==
    IF u = 0 THEN [outcome |-> "pass", expire |-> 0]
    ELSE IF SegmentOf[path] = "saas-admin"
    THEN IF ~SaasAdminAllowed(u)
         THEN [outcome |-> "redirect:/", expire |-> 0]
         ELSE [outcome |-> "pass", expire |-> 0]
    ELSE IF SegmentOf[path] = "hrm"
    THEN IF users[u].is_superuser \/ users[u].is_staff
         THEN [outcome |-> "redirect:/saas-admin/dashboard/", expire |-> 0]
         ELSE IF users[u].tenant = 0
         THEN [outcome |-> "redirect:/", expire |-> 0]
         ELSE LET s == LatestActiveSub(users[u].tenant)
                  target == IF RoleNameOf(u) \in AdminRoleNames
                            THEN "redirect:/billing/pricing/" ELSE "redirect:/"
              IN IF s = 0 THEN [outcome |-> target, expire |-> 0]
                 ELSE IF SubscriptionExpired(s)
                 THEN [outcome |-> target, expire |-> s]
                 ELSE [outcome |-> "pass", expire |-> 0]
    ELSE IF path = "/dashboard/"
    THEN IF users[u].is_superuser \/ users[u].is_staff
         THEN [outcome |-> "redirect:/saas-admin/dashboard/", expire |-> 0]
         ELSE [outcome |-> "redirect:/hrm/overview/", expire |-> 0]
    ELSE [outcome |-> "pass", expire |-> 0]

(* SubscriptionValidationMiddleware.__call__ made to treat staff as      *)
(* DashboardProtectionMiddleware does                                     *)
SubscriptionValidationMiddleware_staff_redirected(u, path) ==
    IF SegmentOf[path] # "hrm" \/ u = 0 THEN [outcome |-> "pass", expire |-> 0]
    ELSE IF users[u].is_superuser \/ users[u].is_staff
    THEN [outcome |-> "redirect:/saas-admin/dashboard/", expire |-> 0]
    ELSE IF users[u].tenant = 0 THEN [outcome |-> "redirect:/", expire |-> 0]
    ELSE LET s == LatestActiveSub(users[u].tenant)
         IN IF s = 0 THEN [outcome |-> "redirect:/billing/pricing/", expire |-> 0]
            ELSE IF SubscriptionExpired(s)
            THEN [outcome |-> "redirect:/billing/pricing/", expire |-> s]
            ELSE [outcome |-> "pass", expire |-> 0]

(* subscription_middleware.SubscriptionValidationMiddleware.__call__: the *)
(* outcome and the subscription it marks expired (0: none)                *)
SubscriptionValidationMiddleware(u, path) ==
    IF SegmentOf[path] # "hrm" \/ u = 0 THEN [outcome |-> "pass", expire |-> 0]
    ELSE IF users[u].is_superuser \/ users[u].is_staff
    THEN [outcome |-> "pass", expire |-> 0]
    ELSE IF users[u].tenant = 0 THEN [outcome |-> "redirect:/", expire |-> 0]
    ELSE LET s == LatestActiveSub(users[u].tenant)
         IN IF s = 0 THEN [outcome |-> "redirect:/billing/pricing/", expire |-> 0]
            ELSE IF SubscriptionExpired(s)
            THEN [outcome |-> "redirect:/billing/pricing/", expire |-> s]
            ELSE [outcome |-> "pass", expire |-> 0]

GuardedPaths == {"/hrm/overview/", "/saas-admin/dashboard/", "/dashboard/"}

(* what the last request was and how it was answered *)
Response(op, user, outcome) ==
    [op |-> op, user |-> user, outcome |-> outcome, order |-> 0, path |-> "",
     codename |-> "", raise_exception |-> FALSE, genuine |-> FALSE, tenant |-> 0,
     target |-> 0, feature |-> "", listed |-> {}]

NewTenant(name, plan) ==
    [slug |-> NewSlug(name), status |-> "inactive", plan |-> plan, end |-> NoDate]

NewUser(tenant, role, is_superuser, is_staff) ==
    [tenant |-> tenant, role |-> role, is_superuser |-> is_superuser, is_staff |-> is_staff,
     deleted |-> FALSE]

(* Subscription.save: end_date is computed from billing_cycle when unset  *)
Subscription_save(s) ==
    IF s.end = NoDate /\ s.start # NoDate
    THEN IF s.billing_cycle = "monthly" THEN [s EXCEPT !.end = s.start + MonthlyDays]
         ELSE IF s.billing_cycle = "yearly" THEN [s EXCEPT !.end = s.start + YearlyDays]
         ELSE s
    ELSE s

NewSub(tenant, plan, start, end, cycle) ==
    Subscription_save([tenant |-> tenant, plan |-> plan, start |-> start, end |-> end,
                       billing_cycle |-> cycle, status |-> "active"])

NewTx(tenant, plan, amount, cycle, status) ==
    [tenant |-> tenant, plan |-> plan, order |-> Len(txs) + 1,
     amount |-> amount, billing_cycle |-> cycle, status |-> status]

PlanExists(plan_id) == plan_id \in PlanIds
ActivePlan(plan_id) == plan_id \in PlanIds /\ Plan[plan_id].status

(* --------------------------- user creation ----------------------------- *)
(* manager.CustomUserManager.create_superuser (manage.py createsuperuser) *)
create_superuser ==
    /\ Len(users) < MaxUsers
    /\ \A u \in UserIds : ~users[u].is_superuser
    /\ users' = Append(users, NewUser(0, 0, TRUE, TRUE))
    /\ resp' = Response("create_superuser", Len(users) + 1, "created")
    /\ UNCHANGED <<clock, inflight, company_subscriptions, tenants, subs, txs, invoices, rbac>>

(* company_auth_views.company_register_view, POST of a valid form.  The   *)
(* IntegrityError branch needs a duplicate e-mail, which clean_email of   *)
(* the form has already rejected.                                         *)
company_register_view(name) ==
    /\ Len(tenants) < MaxTenants
    /\ Len(users) < MaxUsers
    /\ tenants' = Append(tenants, NewTenant(name, 0))
    /\ users' = Append(users, NewUser(Len(tenants) + 1, 0, FALSE, FALSE))
    /\ resp' = Response("company_register_view", Len(users) + 1, "redirect:company:login")
    /\ UNCHANGED <<clock, inflight, company_subscriptions, subs, txs, invoices, rbac>>

(* views.register_view behind TenantMiddleware: POST of a valid form by   *)
(* an anonymous visitor                                                   *)
register_view(path) ==
    LET tm == TenantMiddleware(path)
    IN /\ ~tm.redirect
       /\ Len(users) < MaxUsers
       /\ users' = Append(users, NewUser(tm.tenant, 0, FALSE, FALSE))
       /\ resp' = Response("register_view", Len(users) + 1,
                           IF tm.tenant # 0 THEN "redirect:dashboard" ELSE "redirect:auth:login")
       /\ UNCHANGED <<clock, inflight, company_subscriptions, tenants, subs, txs, invoices, rbac>>

(* api_views.api_users_list, GET: every CustomUser row, narrowed only by  *)
(* the role filter of the query string (role_id 0: no filter given); the *)
(* default page of 10 holds them all                                      *)
api_users_list(u, role_id) ==
    /\ u # 0
    /\ resp' = [Response("api_users_list", u, "200")
                  EXCEPT !.listed = {i \in UserIds : role_id = 0 \/ users[i].role = role_id}]
    /\ UNCHANGED <<clock, inflight, company_subscriptions, db, rbac>>

(* api_views.api_user_create *)
api_user_create(u, role_id, is_staff) ==
    /\ u # 0
    /\ users[u].is_superuser \/ users[u].is_staff \/ has_permission(u, "create_user")
    /\ Len(users) < MaxUsers
    /\ users' = Append(users, NewUser(0, IF role_id \in roles THEN role_id ELSE 0, FALSE, is_staff))
    /\ resp' = Response("api_user_create", u, "201")
    /\ UNCHANGED <<clock, inflight, company_subscriptions, tenants, subs, txs, invoices, rbac>>

(* api_views.api_user_update with a role_id in the payload *)
api_user_update(u, user_id, role_id) ==
    /\ u # 0
    /\ user_id \in UserIds
    /\ users[u].is_superuser \/ users[u].is_staff \/ has_permission(u, "edit_user")
    /\ users' = [users EXCEPT ![user_id].role = IF role_id \in roles THEN role_id ELSE 0]
    /\ resp' = Response("api_user_update", u, "200")
    /\ UNCHANGED <<clock, inflight, company_subscriptions, tenants, subs, txs, invoices, rbac>>

(* api_views.api_user_delete, the view routed at api/users/<id>/delete/ *)
api_user_delete(u, user_id) ==
    /\ u # 0
    /\ user_id \in UserIds
    /\ IF ~(users[u].is_superuser \/ users[u].is_staff \/ has_permission(u, "delete_user"))
       THEN /\ resp' = [Response("api_user_delete", u, "403") EXCEPT !.target = user_id]
            /\ users' = users
       ELSE /\ resp' = [Response("api_user_delete", u, "200") EXCEPT !.target = user_id]
            /\ users' = [users EXCEPT ![user_id].deleted = TRUE]
    /\ UNCHANGED <<clock, inflight, company_subscriptions, tenants, subs, txs, invoices, rbac>>

(* ------------------------- tenant registration ------------------------- *)
(* subscription_views.subscribe_plan, POST of a valid TenantCreationForm  *)
(* by a user who has no tenant yet                                        *)
subscribe_plan(u, plan_id, name) ==
    /\ u # 0
    /\ ActivePlan(plan_id)
    /\ users[u].tenant = 0
    /\ Len(tenants) < MaxTenants
    /\ tenants' = Append(tenants, NewTenant(name, 0))
    /\ users' = [users EXCEPT ![u].tenant = Len(tenants) + 1]
    /\ resp' = Response("subscribe_plan", u, "redirect:process_payment")
    /\ UNCHANGED <<clock, inflight, company_subscriptions, subs, txs, invoices, rbac>>

(* tenant_views.tenant_create_view, POST of a valid TenantCreationForm;   *)
(* the view carries no login_required                                     *)
tenant_create_view(plan_id, name) ==
    /\ ActivePlan(plan_id)
    /\ Len(tenants) < MaxTenants
    /\ tenants' = Append(tenants, NewTenant(name, plan_id))
    /\ resp' = Response("tenant_create_view", 0, "redirect:saas:razorpay_payment")
    /\ UNCHANGED <<clock, inflight, company_subscriptions, users, subs, txs, invoices, rbac>>

(* ----------------------- subscription_views ---------------------------- *)
BillingCycles == {"monthly", "yearly"}

(* subscription_views.process_payment, POST *)
process_payment(u, plan_id, billing_cycle) ==
    /\ u # 0
    /\ ActivePlan(plan_id)
    /\ users[u].tenant # 0
    /\ ActiveSubs(users[u].tenant) = {}
    /\ billing_cycle \in {"monthly", "yearly"}
    /\ Len(subs) < MaxSubs
    /\ LET t == users[u].tenant
           end_date == IF billing_cycle = "monthly" THEN DuringDay(today + MonthlyDays)
                       ELSE DuringDay(today + YearlyDays)
       IN /\ subs' = Append(subs, NewSub(t, plan_id, today, NoDate, billing_cycle))
          /\ tenants' = [tenants EXCEPT ![t].plan = plan_id, ![t].end = end_date,
                                        ![t].status = "active"]
    /\ resp' = Response("process_payment", u, "redirect:payment_success")
    /\ UNCHANGED <<clock, inflight, company_subscriptions, users, txs, invoices, rbac>>

(* subscription_views.cancel_subscription, POST *)
cancel_subscription(u, subscription_id) ==
    /\ u # 0
    /\ users[u].tenant # 0
    /\ subscription_id \in SubIds
    /\ subs[subscription_id].tenant = users[u].tenant
    /\ subs[subscription_id].status = "active"
    /\ subs' = [subs EXCEPT ![subscription_id].status = "cancelled"]
    /\ resp' = Response("cancel_subscription", u, "redirect:list_plans")
    /\ UNCHANGED <<clock, inflight, company_subscriptions, tenants, users, txs, invoices, rbac>>

(* ---------------------------- payment_views --------------------------- *)
PriceFor(plan_id, billing_cycle) ==
    IF billing_cycle = "yearly" THEN Plan[plan_id].price_yearly ELSE Plan[plan_id].price_monthly

(* a verification that signs the order id alone *)
SignatureMatches_order_only(order_id, payment_id, signature) ==
    HmacSha256(KeySecret, order_id, 0) = signature

(* verification of a Razorpay signature, as the three views spell it out  *)
(* and as razorpay's client.utility.verify_payment_signature does it      *)
SignatureMatches(order_id, payment_id, signature) ==
    HmacSha256(KeySecret, order_id, payment_id) = signature

(* the signature posted is the one Razorpay issues for the order and the  *)
(* payment                                                                *)
GenuineSignature(order_id, payment_id, signature) ==
    signature = HmacSha256(KeySecret, order_id, payment_id)

(* the answer of a verification view, with whether the signature it was   *)
(* given was genuine                                                      *)
VerifyResponse(op, u, outcome, order_id, payment_id, signature) ==
    [Response(op, u, outcome)
       EXCEPT !.genuine = GenuineSignature(order_id, payment_id, signature)]

(* a verification that is turned down without a write *)
Refused(op, u, outcome, order_id, payment_id, signature) ==
    /\ resp' = VerifyResponse(op, u, outcome, order_id, payment_id, signature)
    /\ UNCHANGED <<clock, inflight, company_subscriptions, db, rbac>>

TxByOrder(order_id) == {i \in TxIds : txs[i].order = order_id}

(* payment_views.razorpay_payment: the order is created for the plan of   *)
(* the tenant named in the query string; the transaction row keeps the    *)
(* default billing_cycle                                                  *)
razorpay_payment(u, tenant_id, billing_cycle) ==
    /\ u # 0
    /\ tenant_id \in TenantIds
    /\ ActivePlan(tenants[tenant_id].plan)
    /\ Len(txs) < MaxTxs
    /\ txs' = Append(txs, NewTx(tenant_id, tenants[tenant_id].plan,
                                PriceFor(tenants[tenant_id].plan, billing_cycle),
                                "monthly", "CREATED"))
    /\ resp' = [Response("razorpay_payment", u, "200") EXCEPT !.order = Len(txs) + 1]
    /\ UNCHANGED <<clock, inflight, company_subscriptions, tenants, users, subs, invoices, rbac>>

(* payment_views.razorpay_verify, POST *)
razorpay_verify(u, tenant_id, payment_id, order_id, signature) ==
    /\ u # 0
    /\ IF tenant_id \notin TenantIds
       THEN Refused("razorpay_verify", u, "404", order_id, payment_id, signature)
       ELSE IF ~SignatureMatches(order_id, payment_id, signature)
       THEN Refused("razorpay_verify", u, "Payment verification failed.",
                    order_id, payment_id, signature)
       ELSE LET found == TxByOrder(order_id)
                tx == CHOOSE i \in found : TRUE
                end_dt == DuringDay(today + MonthlyDays)
            IN /\ tenants' = [tenants EXCEPT ![tenant_id].status = "active",
                                             ![tenant_id].end = end_dt]
               /\ IF found = {} THEN UNCHANGED <<txs, subs>>
                  ELSE /\ Len(subs) < MaxSubs
                       /\ txs' = [txs EXCEPT ![tx].status = "PAID"]
                       /\ subs' = Append(subs, NewSub(tenant_id, txs[tx].plan, today,
                                                      DayOf(end_dt), "monthly"))
               /\ resp' = [VerifyResponse("razorpay_verify", u, "success",
                                          order_id, payment_id, signature)
                             EXCEPT !.order = order_id]
               /\ UNCHANGED <<clock, inflight, company_subscriptions, users, invoices, rbac>>

(* payment_views.create_razorpay_order, POST *)
create_razorpay_order(u, plan_id, billing_cycle) ==
    /\ u # 0
    /\ ActivePlan(plan_id)
    /\ users[u].tenant # 0
    /\ Len(txs) < MaxTxs
    /\ txs' = Append(txs, NewTx(users[u].tenant, plan_id, PriceFor(plan_id, billing_cycle),
                                billing_cycle, "created"))
    /\ resp' = [Response("create_razorpay_order", u, "success") EXCEPT !.order = Len(txs) + 1]
    /\ UNCHANGED <<clock, inflight, company_subscriptions, tenants, users, subs, invoices, rbac>>

(* payment_views.verify_razorpay_payment, POST.  The closing              *)
(* Invoice.objects.create passes no total_amount, a NOT NULL column       *)
(* without default: the insert raises IntegrityError, which the view      *)
(* turns into a failure answer after the earlier writes were committed.   *)
verify_razorpay_payment(u, order_id, payment_id, signature) ==
    /\ u # 0
    /\ IF ~SignatureMatches(order_id, payment_id, signature)
       THEN Refused("verify_razorpay_payment", u, "Invalid signature",
                    order_id, payment_id, signature)
       ELSE IF TxByOrder(order_id) = {}
       THEN Refused("verify_razorpay_payment", u, "Transaction not found",
                    order_id, payment_id, signature)
       ELSE LET tx == CHOOSE i \in TxByOrder(order_id) : TRUE
                t == txs[tx].tenant
                end_date == IF txs[tx].billing_cycle = "yearly" THEN today + YearlyDays
                            ELSE today + MonthlyDays
                expired == [i \in SubIds |->
                              IF subs[i].tenant = t /\ subs[i].status = "active"
                              THEN [subs[i] EXCEPT !.status = "expired"] ELSE subs[i]]
            IN /\ Len(subs) < MaxSubs
               /\ txs' = [txs EXCEPT ![tx].status = "paid"]
               /\ subs' = Append(expired, NewSub(t, txs[tx].plan, today, end_date,
                                                 txs[tx].billing_cycle))
               /\ tenants' = [tenants EXCEPT ![t].plan = txs[tx].plan,
                                             ![t].end = Midnight(end_date),
                                             ![t].status = "active"]
               /\ invoices' = invoices
               /\ resp' = [VerifyResponse("verify_razorpay_payment", u, "IntegrityError",
                                          order_id, payment_id, signature)
                             EXCEPT !.order = order_id]
               /\ UNCHANGED <<clock, inflight, company_subscriptions, users, rbac>>

(* ------------------------- company_auth_views -------------------------- *)
(* company_auth_views.create_razorpay_order *)
company_create_razorpay_order(u, plan_id) ==
    /\ u # 0
    /\ PlanExists(plan_id)
    /\ users[u].tenant # 0
    /\ tenants[users[u].tenant].status # "active"
    /\ Len(txs) < MaxTxs
    /\ txs' = Append(txs, NewTx(users[u].tenant, plan_id, Plan[plan_id].price_monthly,
                                "monthly", "created"))
    /\ resp' = [Response("company_create_razorpay_order", u, "200") EXCEPT !.order = Len(txs) + 1]
    /\ UNCHANGED <<clock, inflight, company_subscriptions, tenants, users, subs, invoices, rbac>>

(* company_auth_views.payment_success *)
company_payment_success(u, order_id, payment_id, signature) ==
    /\ u # 0
    /\ LET found == {i \in TxByOrder(order_id) : txs[i].tenant = users[u].tenant}
           tx == CHOOSE i \in found : TRUE
           t == users[u].tenant
       IN IF ~SignatureMatches(order_id, payment_id, signature)
          THEN Refused("company_payment_success", u, "Payment verification failed.",
                       order_id, payment_id, signature)
          ELSE IF found = {}
          THEN Refused("company_payment_success", u, "Transaction not found.",
                       order_id, payment_id, signature)
          ELSE /\ txs' = [txs EXCEPT ![tx].status = "paid"]
               /\ tenants' = [tenants EXCEPT ![t].plan = txs[tx].plan,
                                             ![t].end = DuringDay(today + MonthlyDays),
                                             ![t].status = "active"]
               /\ resp' = [VerifyResponse("company_payment_success", u, "redirect:hrm_home",
                                          order_id, payment_id, signature)
                             EXCEPT !.order = order_id]
               /\ UNCHANGED <<clock, inflight, company_subscriptions, users, subs, invoices, rbac>>

(* ------------------------------ RBAC views ----------------------------- *)
(* access_control_views.role_detail, POST: the rows of the role are       *)
(* replaced by the posted permissions                                     *)
role_detail(u, role_id, permissions) ==
    /\ u # 0
    /\ role_id \in roles
    /\ role_permissions' = {rp \in role_permissions : rp[1] # role_id}
                             \cup {<<role_id, c>> : c \in permissions}
    /\ resp' = Response("role_detail", u, "redirect:role_detail")
    /\ UNCHANGED <<clock, inflight, company_subscriptions, db, roles, perm_active>>

(* access_control_views.manage_role_permissions, POST: as role_detail, it *)
(* asks for a login only and replaces the permissions of the role        *)
manage_role_permissions(u, role_id, permissions) ==
    /\ u # 0
    /\ role_id \in roles
    /\ role_permissions' = {rp \in role_permissions : rp[1] # role_id}
                             \cup {<<role_id, c>> : c \in permissions}
    /\ resp' = Response("manage_role_permissions", u, "redirect:roles_and_permissions_list")
    /\ UNCHANGED <<clock, inflight, company_subscriptions, db, roles, perm_active>>

(* permission_views.edit_permission, POST of a valid PermissionForm *)
edit_permission(u, codename, is_active) ==
    /\ u # 0
    /\ perm_active' = [perm_active EXCEPT ![codename] = is_active]
    /\ resp' = Response("edit_permission", u, "redirect:permissions_list")
    /\ UNCHANGED <<clock, inflight, company_subscriptions, db, roles, role_permissions>>

(* Role.delete(): the RolePermission rows go with the role (CASCADE) and  *)
(* the users of the role are left without one (SET_NULL)                  *)
Role_delete(role_id) ==
    /\ roles' = roles \ {role_id}
    /\ role_permissions' = {rp \in role_permissions : rp[1] # role_id}
    /\ users' = [i \in DOMAIN users |->
                   IF users[i].role = role_id THEN [users[i] EXCEPT !.role = 0] ELSE users[i]]

(* role_views.delete_role, POST by a superuser or staff user *)
delete_role(u, role_id) ==
    /\ u # 0
    /\ users[u].is_superuser \/ users[u].is_staff
    /\ role_id \in roles
    /\ Role_delete(role_id)
    /\ resp' = Response("delete_role", u, "redirect:roles_list")
    /\ UNCHANGED <<clock, inflight, company_subscriptions, tenants, subs, txs, invoices, perm_active>>

(* access_control_views.delete_role, POST by a superuser or staff user *)
access_control_delete_role(u, role_id) ==
    /\ u # 0
    /\ users[u].is_superuser \/ users[u].is_staff
    /\ role_id \in roles
    /\ Role_delete(role_id)
    /\ resp' = Response("access_control_delete_role", u,
                        "redirect:access_control:roles_and_permissions_list")
    /\ UNCHANGED <<clock, inflight, company_subscriptions, tenants, subs, txs, invoices, perm_active>>

(* views.api_role_delete: refused while users are assigned to the role *)
api_role_delete(u, role_id) ==
    /\ u # 0
    /\ users[u].is_staff \/ users[u].is_superuser
    /\ role_id \in roles
    /\ IF \E i \in UserIds : users[i].role = role_id
       THEN /\ resp' = Response("api_role_delete", u, "400")
            /\ UNCHANGED <<clock, inflight, company_subscriptions, db, rbac>>
       ELSE /\ Role_delete(role_id)
            /\ resp' = Response("api_role_delete", u, "success")
            /\ UNCHANGED <<clock, inflight, company_subscriptions, tenants, subs, txs, invoices, perm_active>>

(* a request to a view wrapped by decorators.permission_required *)
PermissionCheck(u, codename, raise_exception) ==
    /\ resp' = [Response("permission_required", u, permission_required(u, codename, raise_exception))
                  EXCEPT !.codename = codename, !.raise_exception = raise_exception]
    /\ UNCHANGED <<clock, inflight, company_subscriptions, db, rbac>>

(* a call of CustomUser.has_permission on a stored user *)
HasPermissionCall(u, codename) ==
    /\ u \in UserIds
    /\ resp' = [Response("has_permission", u, IF has_permission(u, codename) THEN "True" ELSE "False")
                  EXCEPT !.codename = codename]
    /\ UNCHANGED <<clock, inflight, company_subscriptions, db, rbac>>

(* A GET of a page behind the middleware chain of settings.MIDDLEWARE:    *)
(* TenantMiddleware, then DashboardProtectionMiddleware, then the view    *)
Request(u, path) ==
    LET tm == TenantMiddleware(path)
        dp == DashboardProtectionMiddleware(u, path)
    IN /\ IF tm.redirect
          THEN /\ resp' = [Response("request", u, "redirect:subscription_plans") EXCEPT !.path = path]
               /\ subs' = subs
          ELSE /\ resp' = [Response("request", u, dp.outcome)
                             EXCEPT !.path = path, !.tenant = tm.tenant]
               /\ subs' = IF dp.expire = 0 THEN subs
                          ELSE [subs EXCEPT ![dp.expire].status = "expired"]
       /\ UNCHANGED <<clock, inflight, company_subscriptions, tenants, users, txs, invoices, rbac>>

(* a CompanySubscription row written through the ORM; no view creates one *)
CompanySubscription_create(t, plan_id, status, end) ==
    /\ t \in TenantIds
    /\ plan_id \in PlanIds
    /\ Len(company_subscriptions) < MaxCompanySubs
    /\ company_subscriptions' = Append(company_subscriptions,
                                       [tenant |-> t, plan |-> plan_id, status |-> status, end |-> end])
    /\ resp' = Response("CompanySubscription_create", 0, "created")
    /\ UNCHANGED <<clock, inflight, db, rbac>>

(* a request of a logged-in user to a view wrapped by                     *)
(* decorators.require_subscription_feature                                *)
FeatureRequest(u, has_tenant_slug, feature_name) ==
    /\ u # 0
    /\ resp' = [Response("require_subscription_feature", u,
                         require_subscription_feature(u, has_tenant_slug, feature_name))
                  EXCEPT !.feature = feature_name]
    /\ UNCHANGED <<clock, inflight, company_subscriptions, db, rbac>>

(* the same GET answered by SubscriptionValidationMiddleware *)
SubscriptionValidationRequest(u, path) ==
    LET sv == SubscriptionValidationMiddleware(u, path)
    IN /\ resp' = [Response("subscription_validation", u, sv.outcome) EXCEPT !.path = path]
       /\ subs' = IF sv.expire = 0 THEN subs
                  ELSE [subs EXCEPT ![sv.expire].status = "expired"]
       /\ UNCHANGED <<clock, inflight, company_subscriptions, tenants, users, txs, invoices, rbac>>


(* ------------------- requests served at the same time ------------------ *)
(* Neither view opens a transaction or locks a row, and the settings do   *)
(* not set ATOMIC_REQUESTS: every ORM call commits on its own, so the     *)
(* calls of two requests interleave.  inflight[p] is the position of      *)
(* worker p inside the view it is serving, with the locals it holds.      *)
Procs == 1 .. MaxRequests

Idle == [pc |-> "idle", op |-> "", user |-> 0, tenant |-> 0, plan |-> 0,
         billing_cycle |-> "", start |-> 0, tx |-> 0]

(* process_payment up to the active-subscription check (lines 121-149) *)
process_payment_check(p, u, plan_id, billing_cycle) ==
    /\ inflight[p].pc = "idle"
    /\ u # 0
    /\ ActivePlan(plan_id)
    /\ users[u].tenant # 0
    /\ ActiveSubs(users[u].tenant) = {}
    /\ billing_cycle \in {"monthly", "yearly"}
    /\ inflight' = [inflight EXCEPT ![p] =
                      [pc |-> "checked", op |-> "process_payment", user |-> u,
                       tenant |-> users[u].tenant, plan |-> plan_id,
                       billing_cycle |-> billing_cycle, start |-> today, tx |-> 0]]
    /\ UNCHANGED <<clock, company_subscriptions, db, rbac, resp>>

(* process_payment: Subscription.objects.create (lines 162-169) *)
process_payment_create(p) ==
    /\ inflight[p].pc = "checked"
    /\ Len(subs) < MaxConcurrentSubs
    /\ subs' = Append(subs, NewSub(inflight[p].tenant, inflight[p].plan, inflight[p].start,
                                   NoDate, inflight[p].billing_cycle))
    /\ inflight' = [inflight EXCEPT ![p].pc = "subscribed"]
    /\ UNCHANGED <<clock, company_subscriptions, tenants, users, txs, invoices, rbac, resp>>

(* process_payment: tenant.save and the redirect (lines 172-179) *)
process_payment_save(p) ==
    /\ inflight[p].pc = "subscribed"
    /\ inflight[p].op = "process_payment"
    /\ LET t == inflight[p].tenant
           end_date == IF inflight[p].billing_cycle = "monthly"
                       THEN DuringDay(inflight[p].start + MonthlyDays)
                       ELSE DuringDay(inflight[p].start + YearlyDays)
       IN tenants' = [tenants EXCEPT ![t].plan = inflight[p].plan, ![t].end = end_date,
                                     ![t].status = "active"]
    /\ inflight' = [inflight EXCEPT ![p] = Idle]
    /\ resp' = Response("process_payment", inflight[p].user, "redirect:payment_success")
    /\ UNCHANGED <<clock, company_subscriptions, users, subs, txs, invoices, rbac>>

(* verify_razorpay_payment up to transaction.save (lines 370-393) *)
verify_razorpay_payment_begin(p, u, order_id, payment_id, signature) ==
    /\ inflight[p].pc = "idle"
    /\ u # 0
    /\ IF ~SignatureMatches(order_id, payment_id, signature)
       THEN Refused("verify_razorpay_payment", u, "Invalid signature",
                    order_id, payment_id, signature)
       ELSE IF TxByOrder(order_id) = {}
       THEN Refused("verify_razorpay_payment", u, "Transaction not found",
                    order_id, payment_id, signature)
       ELSE LET tx == CHOOSE i \in TxByOrder(order_id) : TRUE
            IN /\ txs' = [txs EXCEPT ![tx].status = "paid"]
               /\ inflight' = [inflight EXCEPT ![p] =
                                 [pc |-> "paid", op |-> "verify_razorpay_payment",
                                  user |-> u, tenant |-> txs[tx].tenant,
                                  plan |-> txs[tx].plan,
                                  billing_cycle |-> txs[tx].billing_cycle,
                                  start |-> today, tx |-> tx]]
               /\ UNCHANGED <<clock, company_subscriptions, tenants, users, subs, invoices,
                              rbac, resp>>

(* verify_razorpay_payment: the update that expires the active rows (406) *)
verify_razorpay_payment_expire(p) ==
    /\ inflight[p].pc = "paid"
    /\ subs' = [i \in DOMAIN subs |->
                  IF subs[i].tenant = inflight[p].tenant /\ subs[i].status = "active"
                  THEN [subs[i] EXCEPT !.status = "expired"] ELSE subs[i]]
    /\ inflight' = [inflight EXCEPT ![p].pc = "expired"]
    /\ UNCHANGED <<clock, company_subscriptions, tenants, users, txs, invoices, rbac, resp>>

(* verify_razorpay_payment: Subscription.objects.create (lines 408-416) *)
verify_razorpay_payment_create(p) ==
    /\ inflight[p].pc = "expired"
    /\ Len(subs) < MaxConcurrentSubs
    /\ LET end_date == IF inflight[p].billing_cycle = "yearly"
                       THEN inflight[p].start + YearlyDays
                       ELSE inflight[p].start + MonthlyDays
       IN subs' = Append(subs, NewSub(inflight[p].tenant, inflight[p].plan,
                                      inflight[p].start, end_date,
                                      inflight[p].billing_cycle))
    /\ inflight' = [inflight EXCEPT ![p].pc = "subscribed"]
    /\ UNCHANGED <<clock, company_subscriptions, tenants, users, txs, invoices, rbac, resp>>

(* verify_razorpay_payment: tenant.save, then the invoice insert that     *)
(* raises and the failure answer (lines 419-444)                          *)
verify_razorpay_payment_save(p) ==
    /\ inflight[p].pc = "subscribed"
    /\ inflight[p].op = "verify_razorpay_payment"
    /\ LET t == inflight[p].tenant
           end_date == IF inflight[p].billing_cycle = "yearly"
                       THEN inflight[p].start + YearlyDays
                       ELSE inflight[p].start + MonthlyDays
       IN tenants' = [tenants EXCEPT ![t].plan = inflight[p].plan,
                                     ![t].end = Midnight(end_date),
                                     ![t].status = "active"]
    /\ inflight' = [inflight EXCEPT ![p] = Idle]
    /\ resp' = [Response("verify_razorpay_payment", inflight[p].user, "IntegrityError")
                  EXCEPT !.order = txs[inflight[p].tx].order, !.genuine = TRUE]
    /\ UNCHANGED <<clock, company_subscriptions, users, subs, txs, invoices, rbac>>

Init ==
    /\ today = 0
    /\ ticks = 0
    /\ tenants = <<>>
    /\ users = <<>>
    /\ subs = <<>>
    /\ txs = <<>>
    /\ invoices = <<>>
    /\ company_subscriptions = <<>>
    /\ roles = RoleIds
    /\ role_permissions = {}
    /\ perm_active = [c \in Codenames |-> TRUE]
    /\ inflight = [p \in Procs |-> Idle]
    /\ resp = Response("init", 0, "")

Tick ==
    /\ ticks < MaxTicks
    /\ today' = today + MonthlyDays
    /\ ticks' = ticks + 1
    /\ resp' = Response("tick", 0, "")
    /\ UNCHANGED <<db, rbac, company_subscriptions, inflight>>

Users0 == {0} \cup UserIds

Orders == 1 .. MaxTxs
Registration ==
    \/ create_superuser
    \/ company_register_view("acme")
    \/ \E u \in Users0, p \in PlanInputs : subscribe_plan(u, p, "acme")
    \/ \E p \in PlanInputs : tenant_create_view(p, "acme")

Payment ==
    \/ \E u \in Users0, p \in PlanInputs, c \in BillingCycles : process_payment(u, p, c)
    \/ \E u \in Users0, s \in SubIds : cancel_subscription(u, s)
    \/ \E u \in Users0, t \in 1 .. MaxTenants, c \in BillingCycles : razorpay_payment(u, t, c)
    \/ \E u \in Users0, t \in 1 .. MaxTenants, o \in Orders, p \in PaymentIds, sg \in Signatures :
          razorpay_verify(u, t, p, o, sg)
    \/ \E u \in Users0, p \in PlanInputs, c \in BillingCycles : create_razorpay_order(u, p, c)
    \/ \E u \in Users0, o \in Orders, p \in PaymentIds, sg \in Signatures :
          verify_razorpay_payment(u, o, p, sg)
    \/ \E u \in Users0, p \in PlanInputs : company_create_razorpay_order(u, p)
    \/ \E u \in Users0, o \in Orders, p \in PaymentIds, sg \in Signatures :
          company_payment_success(u, o, p, sg)

Next ==
    \/ Registration
    \/ Payment
    \/ Tick
    \/ \E u \in Users0, path \in GuardedPaths : Request(u, path)

Spec == Init /\ [][Next]_vars

(* the ways a user row comes into being, and the roles of users *)
NextUsers ==
    \/ create_superuser
    \/ \E name \in Names : company_register_view(name)
    \/ \E path \in {"/register/", "/auth/register/"} : register_view(path)
    \/ \E u \in Users0, r \in {0} \cup RoleIds, st \in BOOLEAN : api_user_create(u, r, st)
    \/ \E u \in Users0, t \in UserIds, r \in {0} \cup RoleIds : api_user_update(u, t, r)
    \/ \E u \in Users0, p \in PlanInputs, name \in Names : subscribe_plan(u, p, name)
    \/ \E u \in Users0, p \in PlanInputs, c \in BillingCycles : process_payment(u, p, c)
    \/ \E u \in Users0 : Request(u, "/hrm/overview/")
    \/ Tick

SpecUsers == Init /\ [][NextUsers]_vars

(* roles, permissions and the permission checks *)
RoleInputs == {0, 1, 2}
RbacCodenames == {"create_user", "edit_user"}

NextRbac ==
    \/ create_superuser
    \/ register_view("/auth/register/")
    \/ \E u \in Users0, r \in RoleInputs, st \in BOOLEAN : api_user_create(u, r, st)
    \/ \E u \in Users0, t \in UserIds, r \in RoleInputs : api_user_update(u, t, r)
    \/ \E u \in Users0, r \in RoleInputs, ps \in SUBSET RbacCodenames : role_detail(u, r, ps)
    \/ \E u \in Users0, c \in RbacCodenames, a \in BOOLEAN : edit_permission(u, c, a)
    \/ \E u \in Users0, c \in RbacCodenames, re \in BOOLEAN : PermissionCheck(u, c, re)
    \/ \E u \in UserIds, c \in RbacCodenames : HasPermissionCall(u, c)

SpecRbac == Init /\ [][NextRbac]_vars

(* who is let through the middleware chain: registration, the             *)
(* subscription views, the passing of time and the guarded pages          *)
NextAccess ==
    \/ create_superuser
    \/ company_register_view("acme")
    \/ \E u \in Users0, p \in PlanInputs : subscribe_plan(u, p, "acme")
    \/ \E u \in Users0, p \in PlanInputs, c \in BillingCycles : process_payment(u, p, c)
    \/ \E u \in Users0, s \in SubIds : cancel_subscription(u, s)
    \/ Tick
    \/ \E u \in Users0, path \in GuardedPaths : Request(u, path)

SpecAccess == Init /\ [][NextAccess]_vars

(* the life of roles: assignment, permissions and deletion *)
NextRoles ==
    \/ create_superuser
    \/ \E u \in Users0, r \in RoleInputs, st \in BOOLEAN : api_user_create(u, r, st)
    \/ \E u \in Users0, r \in RoleInputs, ps \in SUBSET RbacCodenames : role_detail(u, r, ps)
    \/ \E u \in Users0, r \in RoleIds : delete_role(u, r)
    \/ \E u \in Users0, r \in RoleIds : access_control_delete_role(u, r)
    \/ \E u \in Users0, r \in RoleIds : api_role_delete(u, r)

SpecRoles == Init /\ [][NextRoles]_vars

(* the JSON user API *)
NextUserApi ==
    \/ create_superuser
    \/ \E name \in Names : company_register_view(name)
    \/ \E u \in Users0, r \in {0, 1}, st \in BOOLEAN : api_user_create(u, r, st)
    \/ \E u \in Users0, t \in 1 .. MaxUsers, r \in {0, 1} : api_user_update(u, t, r)
    \/ \E u \in Users0, t \in 1 .. MaxUsers : api_user_delete(u, t)
    \/ \E u \in Users0, ps \in SUBSET {"edit_user", "delete_user"} : role_detail(u, 1, ps)

SpecUserApi == Init /\ [][NextUserApi]_vars

(* the two gates in front of the HRM pages *)
NextHrm ==
    \/ create_superuser
    \/ company_register_view("acme")
    \/ \E u \in Users0, p \in PlanInputs, c \in BillingCycles : process_payment(u, p, c)
    \/ \E u \in Users0, s \in SubIds : cancel_subscription(u, s)
    \/ Tick
    \/ \E u \in Users0 : Request(u, "/hrm/overview/")
    \/ \E u \in Users0 : SubscriptionValidationRequest(u, "/hrm/overview/")

SpecHrm == Init /\ [][NextHrm]_vars

(* two workers serving payment requests of one company *)
NextConcurrent ==
    \/ company_register_view("acme")
    \/ \E u \in UserIds, c \in BillingCycles : create_razorpay_order(u, 1, c)
    \/ \E p \in Procs, u \in UserIds, c \in BillingCycles : process_payment_check(p, u, 1, c)
    \/ \E p \in Procs : process_payment_create(p)
    \/ \E p \in Procs : process_payment_save(p)
    \/ \E p \in Procs, u \in UserIds, o \in Orders, pay \in PaymentIds, sig \in Signatures :
          verify_razorpay_payment_begin(p, u, o, pay, sig)
    \/ \E p \in Procs : verify_razorpay_payment_expire(p)
    \/ \E p \in Procs : verify_razorpay_payment_create(p)
    \/ \E p \in Procs : verify_razorpay_payment_save(p)

SpecConcurrent == Init /\ [][NextConcurrent]_vars


(* who edits the permissions of a role: accounts, role assignment and     *)
(* the two role-permission forms                                          *)
NextRolePerms ==
    \/ create_superuser
    \/ register_view("/auth/register/")
    \/ \E u \in Users0, t \in UserIds, r \in RoleInputs : api_user_update(u, t, r)
    \/ \E u \in Users0, r \in RoleInputs, ps \in SUBSET RbacCodenames : role_detail(u, r, ps)
    \/ \E u \in Users0, r \in RoleInputs, ps \in SUBSET RbacCodenames :
          manage_role_permissions(u, r, ps)

SpecRolePerms == Init /\ [][NextRolePerms]_vars


(* the user API called by accounts of different tenants *)
NextIsolation ==
    \/ create_superuser
    \/ register_view("/auth/register/")
    \/ \E name \in Names : company_register_view(name)
    \/ \E u \in Users0, r \in RoleInputs : api_users_list(u, r)
    \/ \E u \in Users0, t \in 1 .. MaxUsers, r \in {0, 1} : api_user_update(u, t, r)
    \/ \E u \in Users0, t \in 1 .. MaxUsers : api_user_delete(u, t)
    \/ \E u \in Users0, ps \in SUBSET {"edit_user", "delete_user"} : role_detail(u, 1, ps)

SpecIsolation == Init /\ [][NextIsolation]_vars


(* plan-gated features *)
NextFeature ==
    \/ create_superuser
    \/ company_register_view("acme")
    \/ \E u \in Users0, p \in PlanInputs, c \in BillingCycles : process_payment(u, p, c)
    \/ \E t \in 1 .. MaxTenants, p \in PlanIds, st \in {"pending", "active"},
          e \in {NoDate, DuringDay(today + MonthlyDays)} : CompanySubscription_create(t, p, st, e)
    \/ Tick
    \/ \E u \in Users0, sl \in BOOLEAN, f \in Features : FeatureRequest(u, sl, f)

SpecFeature == Init /\ [][NextFeature]_vars

(* requests to a path whose first segment is the slug of a tenant *)
NextTenant ==
    \/ \E name \in Names : company_register_view(name)
    \/ \E u \in Users0, p \in PlanInputs, c \in BillingCycles : process_payment(u, p, c)
    \/ \E u \in Users0, p \in PlanInputs : create_razorpay_order(u, p, "monthly")
    \/ \E u \in Users0, o \in Orders, p \in PaymentIds :
          verify_razorpay_payment(u, o, p, HmacSha256(KeySecret, o, p))
    \/ register_view("/register/")
    \/ Tick
    \/ \E u \in Users0, path \in {"/register/", "/hrm/overview/"} : Request(u, path)

SpecTenant == Init /\ [][NextTenant]_vars

(* the two Razorpay flows of payment_views, from the order to its         *)
(* verification                                                           *)
NextVerify ==
    \/ create_superuser
    \/ company_register_view("acme")
    \/ \E p \in PlanInputs : tenant_create_view(p, "acme")
    \/ \E u \in Users0, t \in 1 .. MaxTenants, c \in BillingCycles : razorpay_payment(u, t, c)
    \/ \E u \in Users0, t \in 1 .. MaxTenants, o \in Orders, p \in PaymentIds, sg \in Signatures :
          razorpay_verify(u, t, p, o, sg)
    \/ \E u \in Users0, p \in PlanInputs, c \in BillingCycles : create_razorpay_order(u, p, c)
    \/ \E u \in Users0, o \in Orders, p \in PaymentIds, sg \in Signatures :
          verify_razorpay_payment(u, o, p, sg)

SpecVerify == Init /\ [][NextVerify]_vars


(* ======================= properties of the claims ====================== *)
HrmPath == "/hrm/overview/"
SaasAdminPath == "/saas-admin/dashboard/"
AuthRequest(path) == resp.op = "request" /\ resp.path = path /\ resp.user # 0

(* C1: an authenticated /hrm/ request is handed to the view only if the    *)
(* tenant of the user has a Subscription with status 'active' whose        *)
(* end_date is not earlier than today; otherwise it is redirected.         *)
C1_HrmPassNeedsValidSubscription ==
    (AuthRequest(HrmPath) /\ resp.outcome = "pass")
        => /\ users[resp.user].tenant # 0
           /\ \E i \in SubIds : /\ subs[i].tenant = users[resp.user].tenant
                                /\ subs[i].status = "active"
                                /\ subs[i].end # NoDate
                                /\ subs[i].end >= today

(* an authenticated user was let through to an HRM page on the last day of *)
(* the subscription period                                                 *)
C1_Witness ==
    /\ AuthRequest(HrmPath)
    /\ resp.outcome = "pass"
    /\ \E i \in SubIds : subs[i].tenant = users[resp.user].tenant /\ subs[i].end = today

(* C2: a tenant starts with status 'inactive' on every registration path,  *)
(* and its status turns 'active' only in a step of a payment view that has *)
(* verified a Razorpay signature; no other operation activates a tenant.   *)
VerifiedPaymentOps == {"razorpay_verify", "verify_razorpay_payment", "company_payment_success"}

C2_ActivationOnlyByVerifiedPayment ==
    [][/\ \A t \in 1 .. Len(tenants') :
             t > Len(tenants) => tenants'[t].status = "inactive"
       /\ \A t \in TenantIds :
             (tenants[t].status # "active" /\ tenants'[t].status = "active")
                 => (resp'.op \in VerifiedPaymentOps /\ resp'.genuine)]_vars

(* C3: when the signature does not match the HMAC-SHA256 of order id and   *)
(* payment id, verify_razorpay_payment and razorpay_verify answer with a   *)
(* failure and leave tenants, subscriptions, payment transactions and      *)
(* invoices as they were.                                                  *)
C3_SignatureMismatchChangesNothing ==
    [][(resp'.op \in {"verify_razorpay_payment", "razorpay_verify"} /\ ~resp'.genuine)
           => /\ resp'.outcome \in {"Invalid signature", "Payment verification failed.", "404"}
              /\ UNCHANGED <<tenants, subs, txs, invoices>>]_vars

(* a forged signature was turned down while an unpaid order of a tenant    *)
(* that is still inactive was waiting                                      *)
C3_Witness ==
    /\ resp.op \in {"verify_razorpay_payment", "razorpay_verify"}
    /\ resp.outcome \in {"Invalid signature", "Payment verification failed."}
    /\ ~resp.genuine
    /\ \E i \in TxIds : /\ txs[i].status \in {"created", "CREATED"}
                        /\ tenants[txs[i].tenant].status = "inactive"
    /\ subs = <<>>

(* C4: an authenticated request to /saas-admin/ is handed on only for a    *)
(* superuser or a staff user; every other authenticated user is redirected *)
(* to '/'.                                                                 *)
C4_SaasAdminOnlyForStaff ==
    AuthRequest(SaasAdminPath)
        => IF users[resp.user].is_superuser \/ users[resp.user].is_staff
           THEN resp.outcome = "pass"
           ELSE resp.outcome = "redirect:/"

(* a company user asked for a SaaS-admin page and was sent to '/' *)
C4_Witness ==
    /\ AuthRequest(SaasAdminPath)
    /\ ~users[resp.user].is_superuser
    /\ ~users[resp.user].is_staff
    /\ users[resp.user].tenant # 0
    /\ resp.outcome = "redirect:/"

(* C5: an authenticated request to /hrm/ reaches the view only when the    *)
(* role of the user is COMPANY_ADMIN or EMPLOYEE; superusers, staff, users *)
(* with another role and users without a role are redirected.              *)
C5_HrmOnlyForCompanyRoles ==
    (AuthRequest(HrmPath) /\ resp.outcome = "pass")
        => /\ ~users[resp.user].is_superuser
           /\ ~users[resp.user].is_staff
           /\ RoleNameOf(resp.user) \in {"COMPANY_ADMIN", "EMPLOYEE"}

(* C6: has_permission(codename) is True for a superuser or staff user;     *)
(* otherwise it is True exactly when the user has a role and that role has *)
(* a RolePermission row whose permission has the codename and is active;   *)
(* it is False for a user without a role.                                  *)
C6_HasPermission ==
    resp.op = "has_permission"
        => LET u == users[resp.user]
           IN (resp.outcome = "True")
                  <=> \/ u.is_superuser
                      \/ u.is_staff
                      \/ /\ u.role # 0
                         /\ <<u.role, resp.codename>> \in role_permissions
                         /\ perm_active[resp.codename]

(* a user whose role holds the permission was refused because the          *)
(* permission is inactive                                                  *)
C6_Witness ==
    /\ resp.op = "has_permission"
    /\ resp.outcome = "False"
    /\ users[resp.user].role # 0
    /\ <<users[resp.user].role, resp.codename>> \in role_permissions
    /\ ~perm_active[resp.codename]

(* C7: a view behind permission_required(codename) runs only if the user   *)
(* is authenticated and is superuser, staff or has_permission(codename);   *)
(* with raise_exception=True an unauthenticated request gets 401 and an    *)
(* authenticated user lacking the permission gets 403.                     *)
C7_PermissionRequired ==
    resp.op = "permission_required"
        => LET allowed == /\ resp.user # 0
                          /\ \/ users[resp.user].is_superuser
                             \/ users[resp.user].is_staff
                             \/ has_permission(resp.user, resp.codename)
           IN /\ resp.outcome = "view" => allowed
              /\ (resp.raise_exception /\ resp.user = 0) => resp.outcome = "401"
              /\ (resp.raise_exception /\ resp.user # 0 /\ ~allowed) => resp.outcome = "403"

(* a user with a role that lacks the permission was answered 403 *)
C7_Witness ==
    /\ resp.op = "permission_required"
    /\ resp.raise_exception
    /\ resp.user # 0
    /\ users[resp.user].role # 0
    /\ resp.outcome = "403"

(* C8: once the company payment_success flow has succeeded for a tenant,   *)
(* the next /hrm/ request of a non-staff user of that tenant is admitted   *)
(* by DashboardProtectionMiddleware.                                       *)
C8_HrmAdmittedAfterPaymentSuccess ==
    [][(/\ resp.op = "company_payment_success"
        /\ resp.outcome = "redirect:hrm_home"
        /\ resp'.op = "request"
        /\ resp'.path = HrmPath
        /\ resp'.user # 0
        /\ ~users[resp'.user].is_superuser
        /\ ~users[resp'.user].is_staff
        /\ users[resp'.user].tenant = users[resp.user].tenant)
           => resp'.outcome = "pass"]_vars

(* C9: the subscription made by a payment runs 30 days when the order was  *)
(* placed at the monthly price and 365 days when it was placed at the      *)
(* yearly price, on both Razorpay flows, and a Subscription saved without  *)
(* an end_date gets 30 or 365 days by its billing cycle.                   *)
PeriodOf(s) == subs[s].end - subs[s].start
OrderedDays(tx) ==
    IF txs[tx].amount = Plan[txs[tx].plan].price_yearly THEN YearlyDays ELSE MonthlyDays

C9_PeriodMatchesBillingCycle ==
    /\ (/\ resp.op \in {"razorpay_verify", "verify_razorpay_payment"}
        /\ resp.order # 0
        /\ TxByOrder(resp.order) # {})
           => PeriodOf(Len(subs)) = OrderedDays(CHOOSE i \in TxByOrder(resp.order) : TRUE)
    /\ resp.op = "process_payment"
           => PeriodOf(Len(subs)) = IF subs[Len(subs)].billing_cycle = "yearly"
                                    THEN YearlyDays ELSE MonthlyDays

(* C10: the users of a tenant never outnumber max_users of the plan of the *)
(* tenant, whichever path created them.                                    *)
C10_UsersWithinPlanLimit ==
    \A t \in TenantIds :
        tenants[t].plan # 0
            => Cardinality({u \in UserIds : users[u].tenant = t}) <= Plan[tenants[t].plan].max_users

C12_SystemRolesRemain ==
    \A r \in RoleIds : is_system[r] => r \in roles

(* C13: the user-deletion endpoint api/users/<id>/delete/ never deletes    *)
(* the account of the requester and never deletes a superuser: such a      *)
(* request is rejected and the target account still exists afterwards.     *)
C13_NoSelfOrSuperuserDeletion ==
    [][(/\ resp'.op = "api_user_delete"
        /\ resp'.target \in UserIds
        /\ (resp'.target = resp'.user \/ users[resp'.target].is_superuser))
           => /\ resp'.outcome # "200"
              /\ resp'.target \in 1 .. Len(users')
              /\ ~users'[resp'.target].deleted]_vars

(* C14: the two HRM gates are inconsistent: for some authenticated user    *)
(* and database state SubscriptionValidationMiddleware and                 *)
(* DashboardProtectionMiddleware decide differently on the same /hrm/      *)
(* request.  They differ exactly for superusers and staff, whom the first  *)
(* admits and the second redirects; C14_Witness is such a request.         *)
C14_GatesDifferExactlyForStaff ==
    [][(resp'.op = "subscription_validation" /\ resp'.path = HrmPath /\ resp'.user # 0)
          => LET dp == DashboardProtectionMiddleware(resp'.user, resp'.path)
             IN ((resp'.outcome = "pass") # (dp.outcome = "pass"))
                    <=> (users[resp'.user].is_superuser \/ users[resp'.user].is_staff)]_vars

(* SubscriptionValidationMiddleware admitted a /hrm/ request that          *)
(* DashboardProtectionMiddleware redirects in the same state               *)
C14_Witness ==
    /\ resp.op = "subscription_validation"
    /\ resp.path = HrmPath
    /\ resp.user # 0
    /\ resp.outcome = "pass"
    /\ DashboardProtectionMiddleware(resp.user, resp.path).outcome # "pass"

(* C15: a view wrapped by require_subscription_feature(f) is executed      *)
(* exactly when the tenant of the requesting user has a CompanySubscription *)
(* with status 'active' that is not past its end_date and whose plan       *)
(* enables f; in every other case the view is not executed.                *)
C15_FeatureViewRunsExactlyWhenEntitled ==
    resp.op = "require_subscription_feature"
        => ((resp.outcome = "view")
               <=> \E i \in 1 .. Len(company_subscriptions) :
                      LET cs == company_subscriptions[i]
                      IN /\ cs.tenant = users[resp.user].tenant
                         /\ CompanySubscription_is_active(cs)
                         /\ resp.feature \in PlanFeatures[cs.plan])

(* C16: when two verify_razorpay_payment requests, or two process_payment *)
(* POSTs, of one tenant have run with their database steps interleaved    *)
(* and both have answered, the tenant has at most one Subscription in     *)
(* status 'active'.                                                       *)
C16_OneActiveSubscriptionAfterConcurrentPayments ==
    (\A p \in Procs : inflight[p].pc = "idle")
        => \A t \in TenantIds : Cardinality(ActiveSubs(t)) <= 1

(* C17: a permission is added to a role only by a request of a superuser, *)
(* of a staff user or of a user who holds a permission; a logged-in user  *)
(* who is none of these adds no permission to any role, their own         *)
(* included, through role_detail or manage_role_permissions.              *)
C17_RolePermissionsOnlyByPrivileged ==
    [][(role_permissions' \ role_permissions # {})
         => LET u == resp'.user
            IN /\ u \in UserIds
               /\ \/ users[u].is_superuser
                  \/ users[u].is_staff
                  \/ \E c \in Codenames : has_permission(u, c)]_vars

(* user t belongs to a tenant that is not the tenant of user u *)
OtherTenant(u, t) == users[t].tenant # 0 /\ users[t].tenant # users[u].tenant

(* C18: for a requester who is neither staff nor superuser,               *)
(* api_users_list returns no user of another tenant, and api_user_update  *)
(* and api_user_delete leave every user of another tenant as it was.      *)
C18_UserApiTenantIsolated ==
    [][LET u == resp'.user
       IN (u \in UserIds /\ ~users[u].is_superuser /\ ~users[u].is_staff)
            => /\ resp'.op = "api_users_list"
                    => \A t \in resp'.listed : ~OtherTenant(u, t)
               /\ resp'.op \in {"api_user_update", "api_user_delete"}
                    => \A t \in UserIds : OtherTenant(u, t) => users'[t] = users[t]]_vars

====
